---- MODULE Spec2Model ----
(***************************************************************************)
(* State-machine model of the AMEDEO flight-control kernel core:           *)
(*   - the 2-of-3 redundant voter        (src/src/Voter_Interface.c)       *)
(*   - the ARINC 653-like scheduler      (src/kernel/arinc653_partition.c) *)
(*   - the Simplex safety monitor  (src/kernel/core/simplex_safety_monitor.c)*)
(*   - the P-O-A-E cycle orchestrator    (src/src/poae.c) and the ATA-27   *)
(*     host that drives it        (src/tests/ata27_flight_ctrl_host.c)     *)
(* Every API function is one action.  `op` and `ret` record the function   *)
(* that ran last and what it returned; the *_calls variables record the    *)
(* callbacks it invoked, in order.                                         *)
(***************************************************************************)
EXTENDS Integers, Sequences, FiniteSets, TLC

VARIABLES
    op,              \* name of the API function executed last ("none" at start)
    ret,             \* its return value
    console,         \* lines the last call printed to stdout or stderr, in order
    \* ---- Voter_Interface.c
    last,            \* static CtrlOut last
    vote_in,         \* arguments of the last voter_compare call
    \* ---- arinc653_partition.c
    partitions,      \* static arinc653_partition_t partitions[MAX_PARTITIONS]
    num_partitions,  \* static uint32_t num_partitions
    sched_t,         \* argument of the last arinc653_schedule call (0 after init)
    entry_calls,     \* entry points invoked by the last arinc653_schedule call
    \* ---- simplex_safety_monitor.c
    g_simplex_ctx,   \* static simplex_context_t g_simplex_ctx
    simplex_arg,     \* arguments of the last simplex_* call
    simplex_calls,   \* check / fallback callbacks invoked by the last simplex_* call
    reg_order,       \* history: ids in the order simplex_register_monitor first took them
    last_check,      \* simplex_timing_monitor's `static uint64_t last_check`
    timing_calls,    \* history: timestamp and result of every simplex_timing_monitor call
    \* ---- poae.c and ata27_flight_ctrl_host.c
    poae_in,         \* arguments of the last poae_run_cycle call
    poae_calls,      \* phases invoked by the last poae_run_cycle call
    ctx,             \* the host's Ctx (xin, y_cpu, y_fpga, y_dsp, y_out)
    hal_writes,      \* payloads passed to hal_write_actuators, oldest first
    fp,              \* det.c's static FILE *fp: "NULL" or "open"
    det_records      \* records appended by det_log, oldest first

voterVars == <<last, vote_in>>
schedVars == <<partitions, num_partitions, sched_t, entry_calls>>
simplexVars ==
    <<g_simplex_ctx, simplex_arg, simplex_calls, reg_order, last_check, timing_calls>>
cycleVars == <<poae_in, poae_calls, ctx, hal_writes, fp, det_records>>
vars == <<op, ret, console, voterVars, schedVars, simplexVars, cycleVars>>

\* A printed line: its format, the number it prints (0 when it prints none),
\* and the timestamp it prints, if it prints one.
Line(msg, n) == [msg |-> msg, n |-> n, stamped |-> FALSE, t |-> 0]
StampedLine(msg, n, t) == [msg |-> msg, n |-> n, stamped |-> TRUE, t |-> t]

(***************************************************************************)
(* Redundant voter.  A float command is modelled on a fixed-point grid:    *)
(* the value v stands for v grid steps, and fabsf(x - y) <= e is exact on  *)
(* the grid.                                                               *)
(***************************************************************************)
MaxVal == 2
MaxEps == 1

VOTE_EQUAL == 0
VOTE_MISMATCH == 1

Abs(x) == IF x < 0 THEN 0 - x ELSE x

ZeroOut == [elevon_l |-> 0, elevon_r |-> 0]

\* the candidate outputs offered to the voter: every left deflection up to
\* MaxVal with the right one at rest, and one that differs from rest only on
\* the right
CtrlOut ==
    {[elevon_l |-> v, elevon_r |-> 0] : v \in 0..MaxVal}
        \cup {[elevon_l |-> 0, elevon_r |-> 1]}

\* The float NaN, kept outside the grid (every command on the grid is >= 0).
\* Arithmetic on NaN gives NaN, and every comparison with NaN is false.
NaN == -1

\* fabsf(x - y) <= e
Within(x, y, e) == x # NaN /\ y # NaN /\ Abs(x - y) <= e

eq(a, b, e) ==
    Within(a.elevon_l, b.elevon_l, e) /\ Within(a.elevon_r, b.elevon_r, e)

\* a vote carried by any single agreeing pair
AnyPairAgrees(cf, cd, fd) == cf \/ cd \/ fd

\* the branch condition of voter_compare: do the pairwise results carry a vote
Majority(cf, cd, fd) == (cf /\ cd) \/ (cf /\ fd) \/ (cd /\ fd)

\* a selection that prefers the second channel when the first two agree
MajoritySelectSecond(c, f, d, cf, cd) == IF cf THEN f ELSE (IF cd THEN c ELSE f)

\* const CtrlOut *m = cf ? c : (cd ? c : f)
MajoritySelect(c, f, d, cf, cd) == IF cf THEN c ELSE (IF cd THEN c ELSE f)

\* `last` overwritten whatever the vote's outcome
VoterLastUnchecked(old, c, f, d, eps) ==
    MajoritySelect(c, f, d, eq(c, f, eps), eq(c, d, eps))

\* the value of `last` after voter_compare(c, f, d, eps)
VoterLast(old, c, f, d, eps) ==
    LET cf == eq(c, f, eps)
        cd == eq(c, d, eps)
        fd == eq(f, d, eps)
    IN  IF Majority(cf, cd, fd) THEN MajoritySelect(c, f, d, cf, cd) ELSE old

\* the value voter_compare(c, f, d, eps) returns
VoterResult(c, f, d, eps) ==
    IF Majority(eq(c, f, eps), eq(c, d, eps), eq(f, d, eps))
    THEN VOTE_EQUAL ELSE VOTE_MISMATCH

voter_compare(c, f, d, eps) ==
    /\ last' = VoterLast(last, c, f, d, eps)
    /\ ret' = VoterResult(c, f, d, eps)
    /\ vote_in' = [c |-> c, f |-> f, d |-> d, eps |-> eps]
    /\ op' = "voter_compare"
    /\ console' = <<>>

voter_get_consensed_result == last

Vote ==
    /\ \E c \in CtrlOut, f \in CtrlOut, d \in CtrlOut, eps \in 0..MaxEps :
          voter_compare(c, f, d, eps)
    /\ UNCHANGED <<schedVars, simplexVars, cycleVars>>

(***************************************************************************)
(* ARINC 653-like partition scheduler.                                     *)
(***************************************************************************)
MAX_PARTITIONS == 4
PARTITION_DURATION_US == 250000
MAJOR_FRAME_US == 1000000
JITTER_MODULUS == 50
JITTER_LIMIT_US == 50

\* timestamps handed to arinc653_schedule: every slot start up to slot
\* MaxSlot, and a few offsets into each slot
MaxSlot == 4
SlotOffsets == {0, 50, 51, 10000, 249999}
SchedTimes == {k * PARTITION_DURATION_US + o : k \in 0..MaxSlot, o \in SlotOffsets}

PartitionIds == 0..(MAX_PARTITIONS - 1)

\* partition_p0_entry .. partition_p3_entry
EntryPoint(i) ==
    CASE i = 0 -> "partition_p0_entry"
      [] i = 1 -> "partition_p1_entry"
      [] i = 2 -> "partition_p2_entry"
      [] OTHER -> "partition_p3_entry"

\* every demo entry point prints a line and returns 0
EntryReturn(fn) == 0

\* zero-initialised static storage
ZeroPartition == [id |-> 0, duration_us |-> 0, last_exec_us |-> 0, entry_point |-> "NULL"]

arinc653_init ==
    /\ partitions' = [i \in PartitionIds |->
                        [id |-> i, duration_us |-> PARTITION_DURATION_US,
                         last_exec_us |-> 0, entry_point |-> EntryPoint(i)]]
    /\ num_partitions' = 4
    /\ op' = "arinc653_init"
    /\ console' = <<Line("[ARINC653] Initialized %u partitions", 4)>>
    /\ ret' = 0
    /\ sched_t' = 0
    /\ entry_calls' = <<>>

\* uint64_t frame_time = current_time_us % MAJOR_FRAME_US
FrameTime(t) == t % MAJOR_FRAME_US

\* the slot computed from the raw timestamp, without the frame modulo
ActivePartitionNoWrap(t) == t \div PARTITION_DURATION_US

\* a slot index rounded to the nearest slot start instead of truncated
ActivePartitionNearest(t) ==
    ((FrameTime(t) + PARTITION_DURATION_US \div 2) \div PARTITION_DURATION_US)
        % MAX_PARTITIONS

\* uint32_t active_partition = (uint32_t)(frame_time / PARTITION_DURATION_US)
ActivePartition(t) == FrameTime(t) \div PARTITION_DURATION_US

\* actual_offset = frame_time - active_partition * PARTITION_DURATION_US
ActualOffset(t) == FrameTime(t) - ActivePartition(t) * PARTITION_DURATION_US

\* the jitter taken as the whole offset from the slot's expected start
TrueOffsetJitter(t) == ActualOffset(t)

\* uint64_t demo_jitter = actual_offset % 50
DemoJitter(t) == ActualOffset(t) % JITTER_MODULUS

\* the dispatched partition's index handed back instead
DispatchReturnsId(i, fn) == i

\* what `return p->entry_point();` hands back
DispatchReturn(i, fn) == EntryReturn(fn)

\* a dispatch that stamps the whole table
StampAll(table, active_partition, t) ==
    [i \in DOMAIN table |-> [table[i] EXCEPT !.last_exec_us = t]]

\* p->last_exec_us = current_time_us
Stamp(table, active_partition, t) ==
    [table EXCEPT ![active_partition].last_exec_us = t]

\* what a schedule call prints: nothing when it returns -1, the jitter
\* warning when it returns -2, and the line of the entry point it runs
SchedulePrinted(t) ==
    IF ActivePartition(t) >= num_partitions
    THEN <<>>
    ELSE IF DemoJitter(t) > JITTER_LIMIT_US
    THEN <<Line("[ARINC653] WARNING: Jitter %llu us exceeds 50us limit", DemoJitter(t))>>
    ELSE IF partitions[ActivePartition(t)].entry_point # "NULL"
    THEN <<Line("[P%d] partition executing", ActivePartition(t))>>
    ELSE <<>>

arinc653_schedule(t) ==
    LET active_partition == ActivePartition(t) IN
    /\ op' = "arinc653_schedule"
    /\ console' = SchedulePrinted(t)
    /\ sched_t' = t
    /\ UNCHANGED num_partitions
    /\ IF active_partition >= num_partitions
       THEN /\ ret' = -1
            /\ entry_calls' = <<>>
            /\ UNCHANGED partitions
       ELSE IF DemoJitter(t) > JITTER_LIMIT_US
       THEN /\ ret' = -2
            /\ entry_calls' = <<>>
            /\ UNCHANGED partitions
       ELSE IF partitions[active_partition].entry_point # "NULL"
       THEN /\ partitions' = Stamp(partitions, active_partition, t)
            /\ entry_calls' = <<partitions[active_partition].entry_point>>
            /\ ret' = DispatchReturn(active_partition,
                                     partitions[active_partition].entry_point)
       ELSE /\ ret' = 0
            /\ entry_calls' = <<>>
            /\ UNCHANGED partitions

SchedInit ==
    /\ arinc653_init
    /\ UNCHANGED <<voterVars, simplexVars, cycleVars>>

Schedule ==
    /\ \E t \in SchedTimes : arinc653_schedule(t)
    /\ UNCHANGED <<voterVars, simplexVars, cycleVars>>

(***************************************************************************)
(* Simplex safety monitor.  A function pointer is modelled by a name;      *)
(* "NULL" is the null pointer.  What a registered check or fallback        *)
(* returns is the caller's business: each run draws it from {0, -1}.       *)
(***************************************************************************)
SIMPLEX_MAX_MONITORS == 8

SIMPLEX_STATE_NORMAL == 0
SIMPLEX_STATE_DEGRADED == 1
SIMPLEX_STATE_FALLBACK == 2
SIMPLEX_STATE_FAILED == 3

SIMPLEX_VIOLATION_NONE == 0
SIMPLEX_VIOLATION_TIMING == 1
SIMPLEX_VIOLATION_COMMUNICATION == 5

\* simplex_timing_monitor: if (delta > 1050 || delta < 950)
TIMING_MAX_DELTA_US == 1050
TIMING_MIN_DELTA_US == 950

\* bounds on the counters
MaxRegistrations == 2
MaxViolations == 2
MaxFallbacks == 2

MonitorSlots == 0..(SIMPLEX_MAX_MONITORS - 1)
\* ids the callers use: two table slots, and the first id past the table
RegIds == {1, 3}
CallIds == RegIds \cup {SIMPLEX_MAX_MONITORS}
FallbackFns == {"NULL", "fallback_fn"}
ViolationKinds == {SIMPLEX_VIOLATION_TIMING, SIMPLEX_VIOLATION_COMMUNICATION}
\* the timestamp a caller passes: the monitor compares it with nothing and only
\* stamps it into last_check_us and last_state_change_us
SimplexTimes == {1000}
CallbackResults == {0, -1}

\* a simplex_monitor_t after memset(.., 0, ..)
ZeroMonitor ==
    [monitor_id |-> 0, enabled |-> FALSE, last_check_us |-> 0,
     violation_count |-> 0, last_violation |-> SIMPLEX_VIOLATION_NONE,
     name |-> "NULL", check_function |-> "NULL", fallback_function |-> "NULL"]

\* the simplex_context_t after memset(.., 0, ..); also the static initial value
ZeroContext ==
    [current_state |-> 0, active_monitors |-> 0, last_state_change_us |-> 0,
     total_violations |-> 0, fallback_activations |-> 0,
     monitors |-> [i \in MonitorSlots |-> ZeroMonitor]]

NoSimplexArg == [id |-> 0, t |-> 0]

simplex_init ==
    /\ g_simplex_ctx' = [ZeroContext EXCEPT !.current_state = SIMPLEX_STATE_NORMAL,
                                            !.active_monitors = 0]
    /\ op' = "simplex_init"
    /\ console' = <<Line("[SIMPLEX] Safety monitor initialized", 0)>>
    /\ UNCHANGED <<last_check, timing_calls>>
    /\ ret' = 0
    /\ simplex_arg' = NoSimplexArg
    /\ simplex_calls' = <<>>
    /\ reg_order' = <<>>

\* a range check that lets the first id past the table through
InvalidIdOffByOne(monitor_id) == monitor_id > SIMPLEX_MAX_MONITORS

\* if (monitor_id >= SIMPLEX_MAX_MONITORS) return -1;
InvalidId(monitor_id) == monitor_id >= SIMPLEX_MAX_MONITORS

\* the order of registration after monitor_id has been registered
Enrolled(order, monitor_id) ==
    IF \E k \in DOMAIN order : order[k] = monitor_id
    THEN order
    ELSE Append(order, monitor_id)

\* the table entry simplex_register_monitor writes
RegisteredMonitor(old, monitor_id, name, check_fn, fallback_fn) ==
    [old EXCEPT !.monitor_id = monitor_id,
                !.enabled = TRUE,
                !.name = name,
                !.check_function = check_fn,
                !.fallback_function = fallback_fn,
                !.violation_count = 0,
                !.last_violation = SIMPLEX_VIOLATION_NONE]

simplex_register_monitor(monitor_id, name, check_fn, fallback_fn) ==
    /\ op' = "simplex_register_monitor"
    /\ console' = IF InvalidId(monitor_id)
                   THEN <<>>
                   ELSE <<Line("[SIMPLEX] Registered monitor %u: %s", monitor_id)>>
    /\ UNCHANGED <<last_check, timing_calls>>
    /\ simplex_arg' = [NoSimplexArg EXCEPT !.id = monitor_id]
    /\ simplex_calls' = <<>>
    /\ IF InvalidId(monitor_id)
       THEN /\ ret' = -1
            /\ UNCHANGED <<g_simplex_ctx, reg_order>>
       ELSE /\ g_simplex_ctx' =
                 [g_simplex_ctx EXCEPT
                    !.monitors[monitor_id] =
                        RegisteredMonitor(@, monitor_id, name, check_fn, fallback_fn),
                    !.active_monitors = @ + 1]
            /\ reg_order' = Enrolled(reg_order, monitor_id)
            /\ ret' = 0

simplex_enable_monitor(monitor_id) ==
    /\ op' = "simplex_enable_monitor"
    /\ console' = <<>>
    /\ UNCHANGED <<last_check, timing_calls>>
    /\ UNCHANGED reg_order
    /\ simplex_arg' = [NoSimplexArg EXCEPT !.id = monitor_id]
    /\ simplex_calls' = <<>>
    /\ IF InvalidId(monitor_id)
       THEN /\ ret' = -1
            /\ UNCHANGED g_simplex_ctx
       ELSE /\ g_simplex_ctx' = [g_simplex_ctx EXCEPT !.monitors[monitor_id].enabled = TRUE]
            /\ ret' = 0

simplex_disable_monitor(monitor_id) ==
    /\ op' = "simplex_disable_monitor"
    /\ console' = <<>>
    /\ UNCHANGED <<last_check, timing_calls>>
    /\ UNCHANGED reg_order
    /\ simplex_arg' = [NoSimplexArg EXCEPT !.id = monitor_id]
    /\ simplex_calls' = <<>>
    /\ IF InvalidId(monitor_id)
       THEN /\ ret' = -1
            /\ UNCHANGED g_simplex_ctx
       ELSE /\ g_simplex_ctx' = [g_simplex_ctx EXCEPT !.monitors[monitor_id].enabled = FALSE]
            /\ ret' = 0

\* a state update that escalates on every violation: Normal to Degraded,
\* Degraded to Fallback
UpdateStateEscalates(c, t) ==
    IF c.current_state = SIMPLEX_STATE_NORMAL
    THEN [c EXCEPT !.current_state = SIMPLEX_STATE_DEGRADED, !.last_state_change_us = t]
    ELSE IF c.current_state = SIMPLEX_STATE_DEGRADED
    THEN [c EXCEPT !.current_state = SIMPLEX_STATE_FALLBACK, !.last_state_change_us = t]
    ELSE c

\* a state update that toggles: a violation in Degraded brings Normal back
UpdateStateRecovers(c, t) ==
    IF c.current_state = SIMPLEX_STATE_NORMAL
    THEN [c EXCEPT !.current_state = SIMPLEX_STATE_DEGRADED, !.last_state_change_us = t]
    ELSE IF c.current_state = SIMPLEX_STATE_DEGRADED
    THEN [c EXCEPT !.current_state = SIMPLEX_STATE_NORMAL, !.last_state_change_us = t]
    ELSE c

\* if (current_state == NORMAL) { current_state = DEGRADED; last_state_change_us = t; }
UpdateState(c, t) ==
    IF c.current_state = SIMPLEX_STATE_NORMAL
    THEN [c EXCEPT !.current_state = SIMPLEX_STATE_DEGRADED, !.last_state_change_us = t]
    ELSE c

\* the context when a fallback has returned non-zero
FallbackFailed(c) == [c EXCEPT !.current_state = SIMPLEX_STATE_FAILED]

\* the loop going on after a failed fallback
KeepsEvaluatingAfterFailure == TRUE

\* does the loop go on to the next monitor after a fallback returned non-zero
ContinuesAfterFallbackFailure == FALSE

\* ---- simplex_timing_monitor and simplex_timing_fallback
\* delta > 1050 || delta < 950, with delta = timestamp_us - last_check in
\* uint64_t: a timestamp below last_check wraps to a delta above 1050
TimingViolation(lc, timestamp_us) ==
    IF timestamp_us < lc
    THEN TRUE
    ELSE timestamp_us - lc > TIMING_MAX_DELTA_US \/ timestamp_us - lc < TIMING_MIN_DELTA_US

\* what simplex_timing_monitor(timestamp_us, context) returns when its static
\* last_check holds lc
TimingReturn(lc, timestamp_us) ==
    IF lc = 0
    THEN 0
    ELSE IF TimingViolation(lc, timestamp_us) THEN -1 ELSE 0

\* last_check after that call: both branches assign timestamp_us
TimingLast(lc, timestamp_us) == timestamp_us

\* the simplex_timing_monitor calls among the callbacks of a run
TimingMonitorCalls(c, calls) ==
    SelectSeq(calls, LAMBDA x :
        x.fn = "check" /\ c.monitors[x.id].check_function = "simplex_timing_monitor")

\* int result = monitor->check_function(timestamp_us, context): the timing
\* monitor computes it from last_check, which an earlier call of it in the
\* same run has already set; any other check returns what the caller's
\* function returns, checks[s]
CheckResult(c, s, calls, t, checks) ==
    IF c.monitors[s].check_function = "simplex_timing_monitor"
    THEN TimingReturn(IF TimingMonitorCalls(c, calls) = <<>>
                      THEN last_check
                      ELSE TimingLast(last_check, t),
                      t)
    ELSE checks[s]

\* int fallback_result = monitor->fallback_function(timestamp_us, context):
\* simplex_timing_fallback prints a line and returns 0
FallbackResult(c, s, fallbacks) ==
    IF c.monitors[s].fallback_function = "simplex_timing_fallback"
    THEN 0
    ELSE fallbacks[s]

\* a loop that walks the table from its last slot down
MonitorAtDescending(i) == SIMPLEX_MAX_MONITORS - 1 - i

\* &g_simplex_ctx.monitors[i]: the slot the loop looks at in its i-th round
MonitorAt(i) == i

\* a violation counted on the monitor only
CountViolationLocally(c, s) == [c EXCEPT !.monitors[s].violation_count = @ + 1]

\* monitor->violation_count++; g_simplex_ctx.total_violations++
CountViolation(c, s) ==
    [c EXCEPT !.monitors[s].violation_count = @ + 1, !.total_violations = @ + 1]

\* The loop of simplex_run_monitors from round i on: c is the context so far,
\* calls the callbacks invoked so far, n is violations_detected, and checks[s],
\* fallbacks[s] are what the callbacks of the monitor in slot s return in this
\* call.  The result is the final context, the callbacks invoked and the
\* return value.
RECURSIVE RunLoop(_, _, _, _, _, _, _)
RunLoop(i, c, calls, n, t, checks, fallbacks) ==
    IF i >= SIMPLEX_MAX_MONITORS
    THEN [ctx |-> c, calls |-> calls, ret |-> n]
    ELSE
      LET s == MonitorAt(i)
          monitor == c.monitors[s]
      IN
      IF ~monitor.enabled \/ monitor.check_function = "NULL"
      THEN RunLoop(i + 1, c, calls, n, t, checks, fallbacks)
      ELSE
        LET result == CheckResult(c, s, calls, t, checks)
            c1 == [c EXCEPT !.monitors[s].last_check_us = t]
            calls1 == Append(calls, [fn |-> "check", id |-> s, ret |-> result])
        IN
        IF result = 0
        THEN RunLoop(i + 1, c1, calls1, n, t, checks, fallbacks)
        ELSE
          LET c2 == CountViolation(c1, s) IN
          IF monitor.fallback_function # "NULL"
          THEN
            LET fallback_result == FallbackResult(c, s, fallbacks)
                calls2 == Append(calls1, [fn |-> "fallback", id |-> s,
                                          ret |-> fallback_result])
            IN
            IF fallback_result = 0
            THEN RunLoop(i + 1,
                         UpdateState([c2 EXCEPT !.fallback_activations = @ + 1], t),
                         calls2, n + 1, t, checks, fallbacks)
            ELSE IF ContinuesAfterFallbackFailure
            THEN RunLoop(i + 1, FallbackFailed(c2), calls2, n + 1, t, checks, fallbacks)
            ELSE [ctx |-> FallbackFailed(c2), calls |-> calls2, ret |-> -1]
          ELSE RunLoop(i + 1, UpdateState(c2, t), calls1, n + 1, t, checks, fallbacks)

\* the lines one callback of a run leaves on stdout: a violating check is
\* followed by the VIOLATION line, simplex_timing_fallback prints its own
\* line, and a fallback is followed by the line of its outcome
CallPrinted(c, call, t) ==
    IF call.fn = "check"
    THEN IF call.ret # 0
         THEN <<StampedLine("[SIMPLEX] VIOLATION detected in monitor %u (%s) at t=%llu us",
                            call.id, t)>>
         ELSE <<>>
    ELSE (IF c.monitors[call.id].fallback_function = "simplex_timing_fallback"
          THEN <<Line("[SIMPLEX] Timing fallback: Switching to backup timing source", 0)>>
          ELSE <<>>)
         \o (IF call.ret = 0
             THEN <<Line("[SIMPLEX] Fallback activated for monitor %u", call.id)>>
             ELSE <<Line("[SIMPLEX] CRITICAL: Fallback failed for monitor %u", call.id)>>)

\* everything a run prints, callback by callback
RECURSIVE RunPrinted(_, _, _)
RunPrinted(c, calls, t) ==
    IF calls = <<>>
    THEN <<>>
    ELSE CallPrinted(c, Head(calls), t) \o RunPrinted(c, Tail(calls), t)

simplex_run_monitors(timestamp_us, checks, fallbacks) ==
    LET r == RunLoop(0, g_simplex_ctx, <<>>, 0, timestamp_us, checks, fallbacks) IN
    /\ op' = "simplex_run_monitors"
    /\ console' = RunPrinted(g_simplex_ctx, r.calls, timestamp_us)
    /\ UNCHANGED reg_order
    /\ simplex_arg' = [NoSimplexArg EXCEPT !.t = timestamp_us]
    /\ g_simplex_ctx' = r.ctx
    /\ simplex_calls' = r.calls
    /\ ret' = r.ret
    /\ LET timed == TimingMonitorCalls(g_simplex_ctx, r.calls) IN
       /\ last_check' = IF timed = <<>>
                        THEN last_check
                        ELSE TimingLast(last_check, timestamp_us)
       /\ timing_calls' =
             timing_calls \o [k \in 1..Len(timed) |->
                                 [t |-> timestamp_us, ret |-> timed[k].ret]]

simplex_get_state == g_simplex_ctx.current_state

simplex_get_violation_count == g_simplex_ctx.total_violations

\* a force_fallback that only degrades
ForcedStateDegraded(c) == SIMPLEX_STATE_DEGRADED

\* a force_fallback that respects a Failed state
ForcedStateUnlessFailed(c) ==
    IF c.current_state = SIMPLEX_STATE_FAILED
    THEN SIMPLEX_STATE_FAILED
    ELSE SIMPLEX_STATE_FALLBACK

\* the state simplex_force_fallback leaves
ForcedState(c) == SIMPLEX_STATE_FALLBACK

simplex_force_fallback(violation_type) ==
    /\ op' = "simplex_force_fallback"
    /\ console' = <<Line("[SIMPLEX] FORCED FALLBACK: violation type %d", violation_type)>>
    /\ UNCHANGED <<last_check, timing_calls>>
    /\ UNCHANGED reg_order
    /\ simplex_arg' = NoSimplexArg
    /\ g_simplex_ctx' = [g_simplex_ctx EXCEPT !.current_state = ForcedState(g_simplex_ctx),
                                              !.fallback_activations = @ + 1]
    /\ ret' = 0
    /\ simplex_calls' = <<>>

simplex_emergency_shutdown ==
    /\ op' = "simplex_emergency_shutdown"
    /\ console' = <<Line("[SIMPLEX] EMERGENCY SHUTDOWN initiated", 0)>>
    /\ UNCHANGED <<last_check, timing_calls>>
    /\ UNCHANGED reg_order
    /\ simplex_arg' = NoSimplexArg
    /\ g_simplex_ctx' = [g_simplex_ctx EXCEPT !.current_state = SIMPLEX_STATE_FAILED]
    /\ ret' = 0
    /\ simplex_calls' = <<>>

simplex_is_safe_state ==
    \/ g_simplex_ctx.current_state = SIMPLEX_STATE_NORMAL
    \/ g_simplex_ctx.current_state = SIMPLEX_STATE_DEGRADED

\* ---- the timing monitor driven through the registry
\* bound on the number of simplex_timing_monitor calls
MaxTimingCalls == 3

\* timestamps handed to the run: the intervals between them include 949, 1000,
\* 1050, 1051 and 1100 us, and 0 is a timestamp like any other
TimingTimes == {0, 949, 1000, 2000, 2050, 2100}
TimingFallbackFns == {"NULL", "simplex_timing_fallback"}

\* ---- the monitor's actions
\* the monitors a run evaluates, and those among them whose fallback it invokes
\* when their check returns checks[i]
Runnable(c) ==
    {i \in MonitorSlots : c.monitors[i].enabled /\ c.monitors[i].check_function # "NULL"}
Recoverable(c, checks) ==
    {i \in Runnable(c) : checks[i] # 0 /\ c.monitors[i].fallback_function # "NULL"}

otherThanSimplex == <<voterVars, schedVars, cycleVars>>

SimplexInit ==
    /\ simplex_init
    /\ UNCHANGED otherThanSimplex

SimplexRegister ==
    /\ g_simplex_ctx.active_monitors < MaxRegistrations
    /\ \E id \in CallIds, fb \in FallbackFns :
          simplex_register_monitor(id, "Monitor", "check_fn", fb)
    /\ UNCHANGED otherThanSimplex

SimplexEnable ==
    /\ \E id \in CallIds : simplex_enable_monitor(id)
    /\ UNCHANGED otherThanSimplex

SimplexDisable ==
    /\ \E id \in CallIds : simplex_disable_monitor(id)
    /\ UNCHANGED otherThanSimplex

SimplexRun ==
    /\ g_simplex_ctx.total_violations < MaxViolations
    /\ g_simplex_ctx.fallback_activations < MaxFallbacks
    /\ \E t \in SimplexTimes, checks \in [Runnable(g_simplex_ctx) -> CallbackResults] :
          \E fallbacks \in [Recoverable(g_simplex_ctx, checks) -> CallbackResults] :
             simplex_run_monitors(t, checks, fallbacks)
    /\ UNCHANGED otherThanSimplex

\* simplex_register_monitor(id, "Timing", simplex_timing_monitor, fallback)
TimingRegister ==
    /\ g_simplex_ctx.active_monitors < MaxRegistrations
    /\ \E id \in RegIds, fb \in TimingFallbackFns :
          simplex_register_monitor(id, "Timing", "simplex_timing_monitor", fb)
    /\ UNCHANGED otherThanSimplex

\* simplex_run_monitors over a table of timing monitors: their results are
\* computed, no caller's callback is consulted
TimingRun ==
    /\ Len(timing_calls) < MaxTimingCalls
    /\ \E t \in TimingTimes :
          simplex_run_monitors(t, [i \in MonitorSlots |-> 0], [i \in MonitorSlots |-> 0])
    /\ UNCHANGED otherThanSimplex

SimplexForceFallback ==
    /\ g_simplex_ctx.fallback_activations < MaxFallbacks
    /\ \E v \in ViolationKinds : simplex_force_fallback(v)
    /\ UNCHANGED otherThanSimplex

SimplexEmergencyShutdown ==
    /\ simplex_emergency_shutdown
    /\ UNCHANGED otherThanSimplex

(***************************************************************************)
(* Deterministic log, HAL and the ATA-27 host's phases.  Only pitch_cmd of *)
(* the sensor sample is kept: the host's control laws read nothing else.   *)
(* A command of v grid steps is the float v * 1e-4.                        *)
(***************************************************************************)
HOST_EPS == 1

\* bounds on the host run: ticks driven, and the sensor readings offered
MaxTicks == 2
MaxPitch == 1

\* pitch_cmd samples hal_read_sensors may deliver, in multiples of five grid
\* steps so that the laws' multiplication by 0.8 is exact on the grid
PitchSamples == {5 * k : k \in 0..MaxPitch}
HostTimes == {k * 1000 : k \in 0..MaxTicks}

\* A reading that is not a number: hal_read_sensors of HAL_Sim.c computes a
\* finite sine and never delivers one; a HAL on real sensors can.
FaultySamples == PitchSamples \cup {NaN}

\* x * 0.8f
Gain(x) == IF x = NaN THEN NaN ELSE (x * 4) \div 5

\* law_cpu, law_fpga, law_dsp: { pitch_cmd * 0.8f, pitch_cmd * 0.8f }
law_cpu(x) == [elevon_l |-> Gain(x.pitch_cmd), elevon_r |-> Gain(x.pitch_cmd)]
law_fpga(x) == [elevon_l |-> Gain(x.pitch_cmd), elevon_r |-> Gain(x.pitch_cmd)]
law_dsp(x) == [elevon_l |-> Gain(x.pitch_cmd), elevon_r |-> Gain(x.pitch_cmd)]

\* Ctx after memset(&ctx, 0, sizeof(ctx))
ZeroCtx ==
    [xin |-> [pitch_cmd |-> 0], y_cpu |-> ZeroOut, y_fpga |-> ZeroOut,
     y_dsp |-> ZeroOut, y_out |-> ZeroOut]

\* The part of the program state a phase can touch, threaded through a cycle.
World == [ctx |-> ctx, last |-> last, vote_in |-> vote_in, console |-> <<>>,
          hal_writes |-> hal_writes, fp |-> fp, det_records |-> det_records]

\* hal_write_actuators(y, len, tick_us): the simulated HAL accepts the payload
hal_write_actuators(w, y, t) ==
    [w EXCEPT !.hal_writes = Append(@, [y |-> y, t |-> t])]

\* det_init(path): fopen succeeds or fails
det_init(opened) ==
    /\ fp' = IF opened THEN "open" ELSE "NULL"
    /\ op' = "det_init"
    /\ console' = <<>>
    /\ ret' = IF opened THEN 0 ELSE -1
    /\ UNCHANGED <<poae_in, poae_calls, ctx, hal_writes, det_records>>

\* det_log(tag, data, len, t_us): nothing is appended while fp is NULL
det_log(w, tag, y, t) ==
    IF w.fp = "NULL"
    THEN w
    ELSE [w EXCEPT !.det_records = Append(@, [tag |-> tag, y |-> y, t |-> t])]

\* perceive: hal_read_sensors(&c->xin, t); sample is what the sensors deliver
perceive(w, t, sample) ==
    [w |-> [w EXCEPT !.ctx.xin = [pitch_cmd |-> sample]], ret |-> 0]

observe(w, t) == [w |-> w, ret |-> 0]

\* actuate without its `if (... != VOTE_EQUAL) return -1`
ActuateIgnoresVote(w, t) ==
    LET y_cpu == law_cpu(w.ctx.xin)
        y_fpga == law_fpga(w.ctx.xin)
        y_dsp == law_dsp(w.ctx.xin)
        w1 == [w EXCEPT !.ctx.y_cpu = y_cpu, !.ctx.y_fpga = y_fpga, !.ctx.y_dsp = y_dsp,
                        !.last = VoterLast(w.last, y_cpu, y_fpga, y_dsp, HOST_EPS),
                        !.vote_in = [c |-> y_cpu, f |-> y_fpga, d |-> y_dsp,
                                     eps |-> HOST_EPS]]
        w2 == [w1 EXCEPT !.ctx.y_out = w1.last]
    IN  [w |-> det_log(hal_write_actuators(w2, w2.ctx.y_out, t),
                       "ATA27_STEP", w2.ctx.y_out, t),
         ret |-> 0]

actuate(w, t) ==
    LET y_cpu == law_cpu(w.ctx.xin)
        y_fpga == law_fpga(w.ctx.xin)
        y_dsp == law_dsp(w.ctx.xin)
        w1 == [w EXCEPT !.ctx.y_cpu = y_cpu, !.ctx.y_fpga = y_fpga, !.ctx.y_dsp = y_dsp,
                        !.last = VoterLast(w.last, y_cpu, y_fpga, y_dsp, HOST_EPS),
                        !.vote_in = [c |-> y_cpu, f |-> y_fpga, d |-> y_dsp,
                                     eps |-> HOST_EPS]]
    IN  IF VoterResult(y_cpu, y_fpga, y_dsp, HOST_EPS) # VOTE_EQUAL
        THEN [w |-> [w1 EXCEPT !.console =
                           Append(@, StampedLine("[VOTE] mismatch at t=%llu us", 0, t))],
              ret |-> -1]
        ELSE LET w2 == [w1 EXCEPT !.ctx.y_out = w1.last] IN
             [w |-> det_log(hal_write_actuators(w2, w2.ctx.y_out, t),
                            "ATA27_STEP", w2.ctx.y_out, t),
              ret |-> 0]

evolve(w, t) == [w |-> w, ret |-> 0]

(***************************************************************************)
(* Cycle orchestrator.  A phase is a function pointer: "NULL", one of the  *)
(* host's four phases, or a caller's callback that only reports success    *)
(* ("phase_ok") or failure ("phase_err").                                  *)
(***************************************************************************)
CallbackFns == {"NULL", "phase_ok", "phase_err"}

\* calling the function fn points to: the world it leaves and what it returns
CallPhase(fn, w, t, sample) ==
    CASE fn = "perceive" -> perceive(w, t, sample)
      [] fn = "observe" -> observe(w, t)
      [] fn = "actuate" -> actuate(w, t)
      [] fn = "evolve" -> evolve(w, t)
      [] fn = "phase_err" -> [w |-> w, ret |-> -1]
      [] OTHER -> [w |-> w, ret |-> 0]

\* `if (fn) { fn(t, c); }`: r is the cycle so far (world, calls made)
RunPhase(slot, fn, r, t, sample) ==
    IF fn = "NULL"
    THEN r
    ELSE LET out == CallPhase(fn, r.w, t, sample) IN
         [w |-> out.w,
          calls |-> Append(r.calls, [slot |-> slot, fn |-> fn, t |-> t, ret |-> out.ret])]

\* a cycle that actuates before it observes
RunCycleActuateFirst(w, t, p, o, a, e, sample) ==
    LET r0 == [w |-> w, calls |-> <<>>]
        r1 == RunPhase("perceive", p, r0, t, sample)
        r2 == RunPhase("actuate", a, r1, t, sample)
        r3 == RunPhase("observe", o, r2, t, sample)
        r4 == RunPhase("evolve", e, r3, t, sample)
    IN  r4

\* the four `if` statements of poae_run_cycle, in order
RunCycle(w, t, p, o, a, e, sample) ==
    LET r0 == [w |-> w, calls |-> <<>>]
        r1 == RunPhase("perceive", p, r0, t, sample)
        r2 == RunPhase("observe", o, r1, t, sample)
        r3 == RunPhase("actuate", a, r2, t, sample)
        r4 == RunPhase("evolve", e, r3, t, sample)
    IN  r4

\* poae_run_cycle ends with `return 0;`
CycleReturn(calls) == 0

poae_run_cycle(t, p, o, a, e, sample) ==
    LET r == RunCycle(World, t, p, o, a, e, sample) IN
    /\ op' = "poae_run_cycle"
    /\ console' = r.w.console
    /\ poae_in' = [t |-> t, p |-> p, o |-> o, a |-> a, e |-> e]
    /\ poae_calls' = r.calls
    /\ ctx' = r.w.ctx
    /\ last' = r.w.last
    /\ vote_in' = r.w.vote_in
    /\ hal_writes' = r.w.hal_writes
    /\ det_records' = r.w.det_records
    /\ ret' = CycleReturn(r.calls)
    /\ UNCHANGED fp

\* the host opens the deterministic log before its first tick
DetInit ==
    /\ fp = "NULL"
    /\ hal_writes = <<>>
    /\ \E opened \in BOOLEAN : det_init(opened)
    /\ UNCHANGED <<voterVars, schedVars, simplexVars>>

\* one iteration of the host's main loop
HostTick ==
    /\ Len(hal_writes) < MaxTicks
    /\ \E t \in HostTimes, sample \in PitchSamples :
          poae_run_cycle(t, "perceive", "observe", "actuate", "evolve", sample)
    /\ UNCHANGED <<schedVars, simplexVars>>

\* the host's tick over a HAL whose sensors may deliver NaN
FaultyTick ==
    /\ Len(hal_writes) < MaxTicks
    /\ \E t \in HostTimes, sample \in FaultySamples :
          poae_run_cycle(t, "perceive", "observe", "actuate", "evolve", sample)
    /\ UNCHANGED <<schedVars, simplexVars>>

\* a cycle driven with a caller's own callbacks
CallbackCycle ==
    /\ \E t \in HostTimes, p \in CallbackFns, o \in CallbackFns,
          a \in CallbackFns, e \in CallbackFns :
          poae_run_cycle(t, p, o, a, e, 0)
    /\ UNCHANGED <<schedVars, simplexVars>>

(***************************************************************************)
(* Initial state: static storage is zero-initialised.                     *)
(***************************************************************************)
Init ==
    /\ op = "none"
    /\ console = <<>>
    /\ ret = 0
    /\ last = ZeroOut
    /\ vote_in = [c |-> ZeroOut, f |-> ZeroOut, d |-> ZeroOut, eps |-> 0]
    /\ partitions = [i \in PartitionIds |-> ZeroPartition]
    /\ num_partitions = 0
    /\ sched_t = 0
    /\ entry_calls = <<>>
    /\ g_simplex_ctx = ZeroContext
    /\ simplex_arg = NoSimplexArg
    /\ simplex_calls = <<>>
    /\ reg_order = <<>>
    /\ last_check = 0
    /\ timing_calls = <<>>
    /\ poae_in = [t |-> 0, p |-> "NULL", o |-> "NULL", a |-> "NULL", e |-> "NULL"]
    /\ poae_calls = <<>>
    /\ ctx = ZeroCtx
    /\ hal_writes = <<>>
    /\ fp = "NULL"
    /\ det_records = <<>>

\* the voter alone
NextVoter == Vote
SpecVoter == Init /\ [][NextVoter]_vars

\* the partition scheduler alone
NextSched == SchedInit \/ Schedule
SpecSched == Init /\ [][NextSched]_vars

\* the safety monitor alone
NextSimplex ==
    \/ SimplexInit
    \/ SimplexRegister
    \/ SimplexEnable
    \/ SimplexDisable
    \/ SimplexRun
    \/ SimplexForceFallback
    \/ SimplexEmergencyShutdown
SpecSimplex == Init /\ [][NextSimplex]_vars

\* the orchestrator driven with arbitrary callbacks
NextCycle == CallbackCycle
SpecCycle == Init /\ [][NextCycle]_vars

\* the ATA-27 host loop, with the safety monitor's argument-free entry points
\* called between its ticks
NextSystem ==
    \/ DetInit
    \/ HostTick
    \/ SimplexInit
    \/ SimplexForceFallback
    \/ SimplexEmergencyShutdown
SpecSystem == Init /\ [][NextSystem]_vars

\* every operation of every component
\* the timing monitor registered and run at arbitrary timestamps
NextTiming == SimplexInit \/ TimingRegister \/ TimingRun
SpecTiming == Init /\ [][NextTiming]_vars

\* the host on sensors that can fail
NextActuate == DetInit \/ FaultyTick
SpecActuate == Init /\ [][NextActuate]_vars

Next ==
    NextVoter \/ NextSched \/ NextSimplex \/ NextCycle \/ NextSystem \/ NextActuate
        \/ NextTiming
Spec == Init /\ [][Next]_vars

(***************************************************************************)
(* Properties.                                                             *)
(***************************************************************************)

\* ---- C1: an actuator write happens only while the safety monitor reports
\* a safe state (Normal or Degraded); after Failed no tick writes.
C1_WriteOnlyWhenSafe ==
    [][Len(hal_writes') > Len(hal_writes) => simplex_is_safe_state]_vars

\* ---- C2: Failed is terminal: only simplex_init leaves it.
C2_FailedIsTerminal ==
    [][(g_simplex_ctx.current_state = SIMPLEX_STATE_FAILED /\ op' # "simplex_init")
          => g_simplex_ctx'.current_state = SIMPLEX_STATE_FAILED]_vars

\* ---- C3: in a run, a fallback that returns failure is the last callback
\* invoked: the state is Failed, the run returns -1, and no later monitor's
\* check or fallback is called.
C3_FallbackFailureAborts ==
    op = "simplex_run_monitors" =>
        \A k \in 1..Len(simplex_calls) :
            (simplex_calls[k].fn = "fallback" /\ simplex_calls[k].ret # 0) =>
                /\ k = Len(simplex_calls)
                /\ ret = -1
                /\ g_simplex_ctx.current_state = SIMPLEX_STATE_FAILED

\* C3 witness: monitor 1's fallback failed while monitor 3 was enabled and
\* registered, and monitor 3 was not evaluated.
C3_Witness ==
    /\ op = "simplex_run_monitors"
    /\ ret = -1
    /\ Len(simplex_calls) = 2
    /\ simplex_calls[2] = [fn |-> "fallback", id |-> 1, ret |-> -1]
    /\ g_simplex_ctx.monitors[3].enabled
    /\ g_simplex_ctx.monitors[3].check_function # "NULL"
    /\ g_simplex_ctx.current_state = SIMPLEX_STATE_FAILED

\* the three pairwise results of the last vote, and how many of them hold
PairAB == eq(vote_in.c, vote_in.f, vote_in.eps)
PairAC == eq(vote_in.c, vote_in.d, vote_in.eps)
PairBC == eq(vote_in.f, vote_in.d, vote_in.eps)
PairsAgreeing ==
    (IF PairAB THEN 1 ELSE 0) + (IF PairAC THEN 1 ELSE 0) + (IF PairBC THEN 1 ELSE 0)

\* ---- C4: whenever at least one pair of candidates agrees within epsilon,
\* the vote returns Consensus.
C4_TwoAgreeingGiveConsensus ==
    (op = "voter_compare" /\ (PairAB \/ PairAC \/ PairBC)) => ret = VOTE_EQUAL

\* ---- C5: the vote returns Consensus exactly when at least two of the
\* three pairwise results hold, and Mismatch exactly when fewer than two do.
C5_ConsensusIffTwoPairs ==
    op = "voter_compare" =>
        /\ (ret = VOTE_EQUAL) <=> (PairsAgreeing >= 2)
        /\ (ret = VOTE_MISMATCH) <=> (PairsAgreeing < 2)

\* C5 witness: a Consensus carried by exactly two pairs (a-b and b-c agree,
\* a-c does not).
C5_Witness ==
    /\ op = "voter_compare"
    /\ ret = VOTE_EQUAL
    /\ PairAB /\ PairBC /\ ~PairAC

\* the value a Consensus vote selects: channel a when it agrees with b or c,
\* otherwise channel b
SelectedByVote == IF PairAB \/ PairAC THEN vote_in.c ELSE vote_in.f

\* ---- C6: the retained value changes only in a vote that returns
\* Consensus, and is then the value that vote selected; a vote that returns
\* Mismatch leaves it exactly as it was.
C6_RetainedOnlyOnConsensus ==
    [][op' = "voter_compare" =>
          /\ (ret' = VOTE_MISMATCH => last' = last)
          /\ (ret' = VOTE_EQUAL => last' = SelectedByVote')]_vars

\* C6 witness: a Mismatch among three candidates that all differ from the
\* value retained by an earlier Consensus.
C6_Witness ==
    /\ op = "voter_compare"
    /\ ret = VOTE_MISMATCH
    /\ last # ZeroOut
    /\ last \notin {vote_in.c, vote_in.f, vote_in.d}

\* the slot of the last schedule call and its offset, from the frame layout
\* of 1 000 000 us split in four slots of 250 000 us
SlotOf(t) == (t % 1000000) \div 250000
OffsetOf(t) == (t % 1000000) - SlotOf(t) * 250000

C8_SlotSelection ==
    (op = "arinc653_schedule" /\ num_partitions = 4) =>
        /\ SlotOf(sched_t) \in 0..3
        /\ ret # -1
        /\ \A k \in 1..Len(entry_calls) : entry_calls[k] = EntryPoint(SlotOf(sched_t))
        /\ entry_calls # <<>> =>
              /\ partitions[SlotOf(sched_t)].last_exec_us = sched_t
              /\ partitions[SlotOf(sched_t)].id = SlotOf(sched_t)
        /\ (sched_t = 260000 /\ ret = 0) => entry_calls = <<"partition_p1_entry">>
        /\ (sched_t = 999999 /\ ret = 0) => entry_calls = <<"partition_p3_entry">>

\* C8 witness: schedule(999999) dispatched partition 3 after schedule(260000)
\* had dispatched partition 1, and a timestamp of the next frame wrapped to
\* partition 0.
C8_Witness ==
    /\ op = "arinc653_schedule"
    /\ sched_t = 999999
    /\ entry_calls = <<"partition_p3_entry">>
    /\ partitions[1].last_exec_us = 260000
    /\ partitions[0].last_exec_us = 1000000

\* a schedule call that succeeded
ScheduleSucceeded == op = "arinc653_schedule" /\ ret >= 0

\* ---- C9 (as claimed): a successful schedule runs the slot's entry point
\* once, records t, and returns the index of the partition that ran.
C9_ReturnsPartitionId ==
    ScheduleSucceeded =>
        /\ entry_calls = <<EntryPoint(SlotOf(sched_t))>>
        /\ partitions[SlotOf(sched_t)].last_exec_us = sched_t
        /\ ret = SlotOf(sched_t)

\* ---- C9 (amended): a successful schedule runs the slot's entry point
\* once, records t, and returns that entry point's result, which is 0 for
\* every partition.
C9_ReturnsEntryResult ==
    ScheduleSucceeded =>
        /\ entry_calls = <<EntryPoint(SlotOf(sched_t))>>
        /\ partitions[SlotOf(sched_t)].last_exec_us = sched_t
        /\ ret = 0

\* C9 witness: partition 3 ran and the call returned 0.
C9_Witness ==
    /\ ScheduleSucceeded
    /\ SlotOf(sched_t) = 3
    /\ entry_calls = <<"partition_p3_entry">>
    /\ ret = 0

\* ---- C10: in a cycle, no phase is invoked after a phase that returned an
\* error.
C10_ErrorAbortsCycle ==
    op = "poae_run_cycle" =>
        \A k \in 1..Len(poae_calls) : poae_calls[k].ret # 0 => k = Len(poae_calls)

(***************************************************************************)
(* The host's actuate phase and the vote                                   *)
(***************************************************************************)
HostTicked == op = "poae_run_cycle" /\ poae_in.a = "actuate"
TickVote == VoterResult(vote_in.c, vote_in.f, vote_in.d, vote_in.eps)
ActuateCalls == {k \in DOMAIN poae_calls : poae_calls[k].fn = "actuate"}

\* C11: a tick whose vote returns Mismatch writes no actuator command and
\* appends no log record, and its actuate phase returns an error; a tick that
\* writes the actuators writes exactly one command, the value the voter
\* retained in that same tick's vote, and that vote returned Consensus.
C11_MismatchWritesNothing ==
    [][HostTicked' =>
         /\ TickVote' = VOTE_MISMATCH =>
               /\ hal_writes' = hal_writes
               /\ det_records' = det_records
               /\ \A k \in ActuateCalls' : poae_calls'[k].ret # 0
         /\ hal_writes' # hal_writes =>
               /\ TickVote' = VOTE_EQUAL
               /\ hal_writes' = Append(hal_writes, [y |-> last', t |-> poae_in'.t])
               /\ last' = SelectedByVote']_vars

\* a tick on a NaN reading after a tick that wrote: the vote is Mismatch, the
\* earlier write is still the only one and the phase reported -1
C11_Witness ==
    /\ HostTicked
    /\ TickVote = VOTE_MISMATCH
    /\ Len(hal_writes) = 1
    /\ Len(det_records) = 1
    /\ ActuateCalls # {}
    /\ \A k \in ActuateCalls : poae_calls[k].ret = -1

(***************************************************************************)
(* The safety monitor's runs and state changes                             *)
(***************************************************************************)
RunReturned == op = "simplex_run_monitors"
CheckCalls == {k \in DOMAIN simplex_calls : simplex_calls[k].fn = "check"}
FallbackCalls == {k \in DOMAIN simplex_calls : simplex_calls[k].fn = "fallback"}
FallbackSucceeded == \E k \in FallbackCalls : simplex_calls[k].ret = 0

\* C12: a run in which a violation was answered by a successful fallback (and
\* no fallback failed) takes Normal to Degraded and leaves a state that is
\* already Degraded or Fallback as it is; so with one monitor that always
\* violates and always recovers, the first run ends Degraded and so does
\* every later one.
C12_DegradedIsSticky ==
    [][(RunReturned' /\ ret' # -1 /\ FallbackSucceeded') =>
         /\ g_simplex_ctx.current_state = SIMPLEX_STATE_NORMAL =>
               g_simplex_ctx'.current_state = SIMPLEX_STATE_DEGRADED
         /\ g_simplex_ctx.current_state
                 \in {SIMPLEX_STATE_DEGRADED, SIMPLEX_STATE_FALLBACK} =>
               g_simplex_ctx'.current_state = g_simplex_ctx.current_state]_vars

\* the second run of a single monitor that violated and recovered both times
C12_Witness ==
    /\ RunReturned
    /\ ret = 1
    /\ FallbackSucceeded
    /\ g_simplex_ctx.active_monitors = 1
    /\ g_simplex_ctx.total_violations = 2
    /\ g_simplex_ctx.fallback_activations = 2
    /\ g_simplex_ctx.current_state = SIMPLEX_STATE_DEGRADED

Violators == {simplex_calls[k].id : k \in {j \in CheckCalls : simplex_calls[j].ret # 0}}

\* C13: when the monitors that signal a violation in a run have no fallback,
\* each violation is counted on its monitor and globally, and the safety
\* state is not changed: such a run entered in Normal ends in Normal.
C13_NoFallbackKeepsState ==
    [][(RunReturned' /\ ret' # -1 /\ FallbackCalls' = {}) =>
         /\ g_simplex_ctx'.total_violations =
               g_simplex_ctx.total_violations + Cardinality(Violators')
         /\ \A i \in Violators' :
               g_simplex_ctx'.monitors[i].violation_count =
                   g_simplex_ctx.monitors[i].violation_count + 1
         /\ g_simplex_ctx'.current_state = g_simplex_ctx.current_state]_vars

\* C14: once the state has been Failed, simplex_is_safe_state() is false
\* after every later call other than simplex_init.  Failed is unsafe, and no
\* call but simplex_init takes an unsafe state (Failed or Fallback) to a safe
\* one, so the answer stays false from Failed on, also after force_fallback
\* has replaced Failed by Fallback.
C14_UnsafeAfterFailed ==
    [][(op' # "simplex_init" /\ ~simplex_is_safe_state) => ~simplex_is_safe_state']_vars

\* a run in state Failed that found a violation and completed: Failed was
\* entered by an earlier call, and the state is still not safe
C14_Witness ==
    /\ RunReturned
    /\ ret > 0
    /\ g_simplex_ctx.current_state = SIMPLEX_STATE_FAILED
    /\ ~simplex_is_safe_state

\* C15: once the state is not Normal, no call of register, enable, disable,
\* run, force_fallback or emergency_shutdown makes it Normal again; only
\* simplex_init does.
C15_NeverSelfHeals ==
    [][(op' # "simplex_init" /\ g_simplex_ctx.current_state # SIMPLEX_STATE_NORMAL)
          => g_simplex_ctx'.current_state # SIMPLEX_STATE_NORMAL]_vars

\* a run without any violation in state Degraded: the state stays Degraded
C15_Witness ==
    /\ RunReturned
    /\ ret = 0
    /\ CheckCalls # {}
    /\ g_simplex_ctx.total_violations > 0
    /\ g_simplex_ctx.current_state = SIMPLEX_STATE_DEGRADED

\* C16: simplex_force_fallback, in any state and for any violation kind,
\* returns 0, leaves the state Fallback, adds exactly one to the
\* fallback-activation counter and changes no violation counter.
C16_ForceFallback ==
    [][op' = "simplex_force_fallback" =>
         /\ ret' = 0
         /\ g_simplex_ctx'.current_state = SIMPLEX_STATE_FALLBACK
         /\ g_simplex_ctx'.fallback_activations = g_simplex_ctx.fallback_activations + 1
         /\ g_simplex_ctx'.total_violations = g_simplex_ctx.total_violations
         /\ \A i \in MonitorSlots :
               g_simplex_ctx'.monitors[i].violation_count =
                   g_simplex_ctx.monitors[i].violation_count]_vars

\* force_fallback called a second time, after violations were counted
C16_Witness ==
    /\ op = "simplex_force_fallback"
    /\ ret = 0
    /\ g_simplex_ctx.current_state = SIMPLEX_STATE_FALLBACK
    /\ g_simplex_ctx.fallback_activations = 2
    /\ g_simplex_ctx.total_violations = 2

\* the slots of the table a registration has filled
Registered(c) == {i \in MonitorSlots : c.monitors[i].check_function # "NULL"}

\* C17: simplex_register_monitor with an id that is already registered
\* returns an error and leaves that entry (check, fallback, enabled flag,
\* violation count) and the count of registered monitors as they were; the
\* count never exceeds the table's 8 slots.
C17_DuplicateIdRejected ==
    [][(op' = "simplex_register_monitor"
            /\ simplex_arg'.id \in Registered(g_simplex_ctx)) =>
         /\ ret' # 0
         /\ g_simplex_ctx'.monitors[simplex_arg'.id] = g_simplex_ctx.monitors[simplex_arg'.id]
         /\ g_simplex_ctx'.active_monitors = g_simplex_ctx.active_monitors
         /\ g_simplex_ctx'.active_monitors <= SIMPLEX_MAX_MONITORS]_vars

\* the place of a registered id in the order of registration
PlaceOf(id) == CHOOSE p \in DOMAIN reg_order : reg_order[p] = id
Checked == {simplex_calls[k].id : k \in CheckCalls}

\* C18 as claimed: a run evaluates the enabled monitors in the order in
\* which they were registered.
C18_RegistrationOrder ==
    RunReturned =>
        \A j \in CheckCalls, k \in CheckCalls :
            j < k => PlaceOf(simplex_calls[j].id) < PlaceOf(simplex_calls[k].id)

\* C18: a run evaluates the enabled monitors in increasing order of their
\* id, the index of their slot, whatever the order of registration; after a
\* fallback failure the monitors left unevaluated are the enabled ones with
\* a higher id than the failing monitor, and a run without fallback failure
\* evaluates every enabled monitor.
C18_IdOrder ==
    RunReturned =>
        /\ \A j \in CheckCalls, k \in CheckCalls :
              j < k => simplex_calls[j].id < simplex_calls[k].id
        /\ ret = -1 =>
              Runnable(g_simplex_ctx) \ Checked =
                  {i \in Runnable(g_simplex_ctx) :
                      i > simplex_calls[Len(simplex_calls)].id}
        /\ ret # -1 => Checked = Runnable(g_simplex_ctx)

\* id 3 registered before id 1, and a run that evaluated both: 1 came first
C18_Witness ==
    /\ RunReturned
    /\ reg_order = <<3, 1>>
    /\ Checked = {1, 3}
    /\ simplex_calls[1].id = 1

FallbacksDone == {k \in FallbackCalls : simplex_calls[k].ret = 0}

\* C19: a run in which no fallback fails evaluates the enabled monitors and
\* returns the number of them whose check signalled a violation; the global
\* violation count grows by that number, the count of each violating monitor
\* by one and that of every other monitor by nothing, and the
\* fallback-activation count by one per successful fallback.  A run in which
\* no check violates returns 0 and leaves the state and all counters as
\* they were.
C19_RunCounts ==
    [][(RunReturned' /\ ret' # -1) =>
         /\ Checked' = Runnable(g_simplex_ctx)
         /\ ret' = Cardinality(Violators')
         /\ g_simplex_ctx'.total_violations =
               g_simplex_ctx.total_violations + Cardinality(Violators')
         /\ \A i \in MonitorSlots :
               g_simplex_ctx'.monitors[i].violation_count =
                   g_simplex_ctx.monitors[i].violation_count
                       + (IF i \in Violators' THEN 1 ELSE 0)
         /\ g_simplex_ctx'.fallback_activations =
               g_simplex_ctx.fallback_activations + Cardinality(FallbacksDone')
         /\ Violators' = {} =>
               /\ ret' = 0
               /\ g_simplex_ctx'.current_state = g_simplex_ctx.current_state
               /\ g_simplex_ctx'.total_violations = g_simplex_ctx.total_violations
               /\ g_simplex_ctx'.fallback_activations = g_simplex_ctx.fallback_activations]_vars

\* a run that returned 2: both monitors violated, one of them has a fallback
\* and it succeeded
C19_Witness ==
    /\ RunReturned
    /\ ret = 2
    /\ Cardinality(Violators) = 2
    /\ Cardinality(FallbacksDone) = 1
    /\ g_simplex_ctx.total_violations = 2
    /\ g_simplex_ctx.fallback_activations = 1

\* C20: after a vote that returns Consensus the retained value is an exact
\* copy of one input: of channel a when a agrees with b or with c, otherwise
\* of channel b; and that input agrees within epsilon with at least one of
\* the two other inputs.
C20_RetainedIsAnInput ==
    (op = "voter_compare" /\ ret = VOTE_EQUAL) =>
        IF PairAB \/ PairAC
        THEN /\ last = vote_in.c
             /\ eq(last, vote_in.f, vote_in.eps) \/ eq(last, vote_in.d, vote_in.eps)
        ELSE /\ last = vote_in.f
             /\ eq(last, vote_in.c, vote_in.eps) \/ eq(last, vote_in.d, vote_in.eps)

\* a Consensus in which a and b disagree and c agrees with both: the value
\* retained is a's, not b's and not c's
C20_Witness ==
    /\ op = "voter_compare"
    /\ ret = VOTE_EQUAL
    /\ ~PairAB
    /\ PairAC
    /\ PairBC
    /\ last = vote_in.c
    /\ last \notin {vote_in.f, vote_in.d}

(***************************************************************************)
(* The cycle orchestrator                                                  *)
(***************************************************************************)
CycleReturned == op = "poae_run_cycle"

\* C21: poae_run_cycle returns non-zero whenever one of the phases it invoked
\* returned an error.
C21_CycleReportsPhaseError ==
    CycleReturned =>
        ((\E k \in DOMAIN poae_calls : poae_calls[k].ret # 0) => ret # 0)

\* the place of a phase in the cycle, and the pointer passed for it
PhaseRank(slot) ==
    CASE slot = "perceive" -> 1
      [] slot = "observe" -> 2
      [] slot = "actuate" -> 3
      [] slot = "evolve" -> 4
PhasePointer(slot) ==
    CASE slot = "perceive" -> poae_in.p
      [] slot = "observe" -> poae_in.o
      [] slot = "actuate" -> poae_in.a
      [] slot = "evolve" -> poae_in.e

\* C22: the phases one poae_run_cycle call invokes are the non-null ones
\* among perceive, observe, actuate, evolve, in that order and each once, every
\* one called with the cycle's timestamp.
C22_PhaseOrder ==
    CycleReturned =>
        /\ \A j \in DOMAIN poae_calls, k \in DOMAIN poae_calls :
              j < k => PhaseRank(poae_calls[j].slot) < PhaseRank(poae_calls[k].slot)
        /\ \A k \in DOMAIN poae_calls :
              /\ poae_calls[k].t = poae_in.t
              /\ poae_calls[k].fn = PhasePointer(poae_calls[k].slot)
        /\ {poae_calls[k].slot : k \in DOMAIN poae_calls} =
              {s \in {"perceive", "observe", "actuate", "evolve"} : PhasePointer(s) # "NULL"}

\* a cycle with four callbacks, at a timestamp other than 0
C22_Witness ==
    /\ CycleReturned
    /\ Len(poae_calls) = 4
    /\ poae_in.t # 0
    /\ poae_calls[2].slot = "observe"
    /\ poae_calls[3].slot = "actuate"

(***************************************************************************)
(* The monitor table: enabling, disabling, invalid ids, counters           *)
(***************************************************************************)
\* C23: a run skips a disabled monitor (no callback of it is invoked and its
\* entry does not change); a registered monitor that is disabled becomes
\* enabled again only by simplex_enable_monitor on its id; and neither
\* enable nor disable changes a violation count, the global counters or the
\* safety state.
C23_DisabledUntilEnabled ==
    [][/\ RunReturned' =>
            \A i \in MonitorSlots :
                ~g_simplex_ctx.monitors[i].enabled =>
                    /\ \A k \in DOMAIN simplex_calls' : simplex_calls'[k].id # i
                    /\ g_simplex_ctx'.monitors[i] = g_simplex_ctx.monitors[i]
       /\ \A i \in Registered(g_simplex_ctx) :
            (~g_simplex_ctx.monitors[i].enabled /\ g_simplex_ctx'.monitors[i].enabled) =>
                (op' = "simplex_enable_monitor" /\ simplex_arg'.id = i)
       /\ op' \in {"simplex_enable_monitor", "simplex_disable_monitor"} =>
            /\ \A i \in MonitorSlots :
                  g_simplex_ctx'.monitors[i].violation_count =
                      g_simplex_ctx.monitors[i].violation_count
            /\ g_simplex_ctx'.total_violations = g_simplex_ctx.total_violations
            /\ g_simplex_ctx'.fallback_activations = g_simplex_ctx.fallback_activations
            /\ g_simplex_ctx'.current_state = g_simplex_ctx.current_state]_vars

\* C24: simplex_register_monitor, simplex_enable_monitor and
\* simplex_disable_monitor called with an id of 8 or more return an error
\* and leave the whole context (state, counters, every table entry) as it was.
C24_InvalidIdRejected ==
    [][(op' \in {"simplex_register_monitor", "simplex_enable_monitor",
                  "simplex_disable_monitor"}
            /\ simplex_arg'.id >= SIMPLEX_MAX_MONITORS) =>
         /\ ret' # 0
         /\ g_simplex_ctx' = g_simplex_ctx]_vars

\* a registration with id 8 refused on a table that holds monitor 3 with a
\* violation counted
C24_Witness ==
    /\ op = "simplex_register_monitor"
    /\ simplex_arg.id = SIMPLEX_MAX_MONITORS
    /\ ret = -1
    /\ Registered(g_simplex_ctx) = {3}
    /\ g_simplex_ctx.active_monitors = 1
    /\ g_simplex_ctx.monitors[3].violation_count = 1

(***************************************************************************)
(* The partition scheduler over a major frame                              *)
(***************************************************************************)
\* the partition whose entry point the last schedule call invoked
Dispatched == CHOOSE i \in PartitionIds : entry_calls = <<EntryPoint(i)>>
FrameOf(t) == t \div MAJOR_FRAME_US

\* C25: of two successive schedule calls of an initialised scheduler with
\* timestamps t <= t' in the same major frame, the second dispatches a
\* partition whose index is not lower; a call at the start of a frame
\* dispatches partition 0, and a call one slot duration after the previous
\* one, in the same frame, dispatches the next partition.
C25_SlotMonotonic ==
    [][(op' = "arinc653_schedule" /\ num_partitions' = MAX_PARTITIONS) =>
         /\ Len(entry_calls') = 1
         /\ sched_t' % MAJOR_FRAME_US = 0 => Dispatched' = 0
         /\ (op = "arinc653_schedule" /\ num_partitions = MAX_PARTITIONS
                /\ FrameOf(sched_t) = FrameOf(sched_t') /\ sched_t <= sched_t') =>
               /\ Dispatched <= Dispatched'
               /\ sched_t' = sched_t + PARTITION_DURATION_US =>
                     Dispatched' = Dispatched + 1]_vars

\* the frame stepped through from its start in steps of one slot: the four
\* partitions ran at 0, 250000, 500000 and 750000, the last one just now
C25_Witness ==
    /\ op = "arinc653_schedule"
    /\ num_partitions = MAX_PARTITIONS
    /\ sched_t = 3 * PARTITION_DURATION_US
    /\ entry_calls = <<EntryPoint(3)>>
    /\ \A i \in PartitionIds : partitions[i].last_exec_us = i * PARTITION_DURATION_US

\* C26: a call of the timing monitor reports a violation exactly when it is
\* not the first call and the interval since the previous call differs from
\* 1000 us by more than 50 us; with the timestamps 0, 1000, 2100 the third
\* call is the first to report one.
C26_TimingExact ==
    /\ \A k \in DOMAIN timing_calls :
          timing_calls[k].ret # 0 <=>
              (k > 1 /\ Abs(timing_calls[k].t - timing_calls[k - 1].t - 1000) > 50)
    /\ (Len(timing_calls) = 3 /\ timing_calls[1].t = 0 /\ timing_calls[2].t = 1000
            /\ timing_calls[3].t = 2100) =>
          (timing_calls[1].ret = 0 /\ timing_calls[2].ret = 0 /\ timing_calls[3].ret # 0)

(***************************************************************************)
(* Faults and what is printed about them                                   *)
(***************************************************************************)
\* the last call printed a line that carries the timestamp t
StampedAt(t) == \E k \in DOMAIN console : console[k].stamped /\ console[k].t = t
Stamped == \E k \in DOMAIN console : console[k].stamped

\* C27: every fault leaves a printed event that carries its timestamp: a
\* schedule call that returns an error, a run for each violation and for a
\* failed fallback, a forced fallback, an emergency shutdown, and a tick whose
\* vote is Mismatch.
C27_FaultsLogged ==
    /\ (op = "arinc653_schedule" /\ ret < 0) => StampedAt(sched_t)
    /\ (RunReturned /\ Violators # {}) => StampedAt(simplex_arg.t)
    /\ (RunReturned /\ ret = -1) =>
          \E k \in DOMAIN console :
              /\ console[k].msg = "[SIMPLEX] CRITICAL: Fallback failed for monitor %u"
              /\ console[k].stamped
    /\ op \in {"simplex_force_fallback", "simplex_emergency_shutdown"} => Stamped
    /\ (HostTicked /\ TickVote = VOTE_MISMATCH) => StampedAt(poae_in.t)

\* C28: a run that changes the safety state (Normal to Degraded, or any state
\* to Failed on a fallback failure) records its timestamp in
\* last_state_change_us.
C28_StateChangeStamped ==
    [][(RunReturned' /\ g_simplex_ctx'.current_state # g_simplex_ctx.current_state) =>
          g_simplex_ctx'.last_state_change_us = simplex_arg'.t]_vars

\* the sum of the violation counts of slots 0 .. i
RECURSIVE CountsUpTo(_)
CountsUpTo(i) ==
    IF i < 0
    THEN 0
    ELSE g_simplex_ctx.monitors[i].violation_count + CountsUpTo(i - 1)

\* C29: in every reachable state the global violation count is the sum of
\* the violation counts of the monitors in the table.
C29_TotalIsSum ==
    g_simplex_ctx.total_violations = CountsUpTo(SIMPLEX_MAX_MONITORS - 1)

\* C30: a schedule call leaves the partition count and every partition's
\* id, duration and entry point as they were; the only last_exec_us it may
\* change is that of the partition of the timestamp's slot, which it has
\* then dispatched and stamped with the timestamp; a call that returns an
\* error changes nothing of the table.
C30_ScheduleFrame ==
    [][op' = "arinc653_schedule" =>
         /\ num_partitions' = num_partitions
         /\ \A i \in PartitionIds :
               /\ partitions'[i].id = partitions[i].id
               /\ partitions'[i].duration_us = partitions[i].duration_us
               /\ partitions'[i].entry_point = partitions[i].entry_point
               /\ partitions'[i].last_exec_us # partitions[i].last_exec_us =>
                     /\ i = SlotOf(sched_t')
                     /\ entry_calls' = <<partitions[i].entry_point>>
                     /\ partitions'[i].last_exec_us = sched_t'
         /\ ret' < 0 => partitions' = partitions]_vars

\* partition 1 dispatched at 260000 while partition 0 keeps the stamp of its
\* own dispatch at 50 and partition 2 has never run
C30_Witness ==
    /\ op = "arinc653_schedule"
    /\ ret = 0
    /\ sched_t = 260000
    /\ partitions[1].last_exec_us = 260000
    /\ partitions[0].last_exec_us = 50
    /\ partitions[2].last_exec_us = 0

\* C31: a monitor entry's last_violation is SIMPLEX_VIOLATION_NONE exactly
\* while its violation_count is 0: once a run has counted a violation for the
\* entry, last_violation names a kind of violation.
C31_LastViolationKind ==
    \A i \in MonitorSlots :
        g_simplex_ctx.monitors[i].last_violation = SIMPLEX_VIOLATION_NONE
            <=> g_simplex_ctx.monitors[i].violation_count = 0

====
